---- MODULE Spec2Model ----
(***************************************************************************)
(* Google-Maps-Scraper: the fingerprint store, the fingerprint function,   *)
(* the retry wrapper, the website email resolver, the listing discovery    *)
(* loop and the run orchestrator of src/main.py.                           *)
(*                                                                         *)
(* Python strings are sequences of one-character strings, so that          *)
(* normalisation (whitespace collapsing, stripping, lower-casing) and the  *)
(* "|" join of build_fingerprint are computed as the code computes them.   *)
(***************************************************************************)
EXTENDS Integers, Sequences, FiniteSets, TLC

VARIABLES
    \* build_fingerprint applied to two Places
    pa, pb, fa, fb,
    \* the leads table, the wall clock (seconds) and the last store call
    store, now, lastOp, hadEmail,
    \* scrape_places: control point, arguments, discovery loop, iteration
    pc, cfg,
    previously_counted, scroll_attempts, found, streak,
    places, stats, listings_processed, listings_total,
    dedup_conn, browser, exc, lastListing, conn_log,
    \* the retry wrapper and the website email resolver
    retry, resolve_in, resolved,
    \* two calls of scrape_places on one page of listings: the call number, the
    \* listings, the outcomes of this call and those of the call before
    run, feed, journal, first

fpVars     == <<pa, pb, fa, fb>>
storeVars  == <<store, now, lastOp, hadEmail>>
scrollVars == <<previously_counted, scroll_attempts, found, streak>>
runVars    == <<places, stats, listings_processed, listings_total,
                dedup_conn, browser, exc, lastListing, conn_log>>
resolverVars == <<retry, resolve_in, resolved>>
replayVars == <<run, feed, journal, first>>
vars == <<pa, pb, fa, fb, store, now, lastOp, hadEmail, pc, cfg,
          previously_counted, scroll_attempts, found, streak,
          places, stats, listings_processed, listings_total,
          dedup_conn, browser, exc, lastListing, conn_log,
          retry, resolve_in, resolved, run, feed, journal, first>>

(***************************************************************************)
(* Text                                                                    *)
(***************************************************************************)

\* the characters re's \s and str.strip() take for whitespace
IsSpace(c) == c \in {" ", "\t", "\n"}

\* str.lower() on the letters the sample texts use
LowerOf == [A |-> "a", B |-> "b", C |-> "c", F |-> "f", N |-> "n", W |-> "w"]

Lower(c) == IF c \in DOMAIN LowerOf THEN LowerOf[c] ELSE c

LowerStr(s) == [i \in 1..Len(s) |-> Lower(s[i])]

RECURSIVE LStrip(_)
LStrip(s) == IF s /= <<>> /\ IsSpace(Head(s)) THEN LStrip(Tail(s)) ELSE s

RECURSIVE RStrip(_)
RStrip(s) ==
    IF s /= <<>> /\ IsSpace(s[Len(s)]) THEN RStrip(SubSeq(s, 1, Len(s) - 1)) ELSE s

\* str.strip()
Strip(s) == RStrip(LStrip(s))

\* re.sub(r"\s+", " ", s): every maximal run of whitespace becomes one space
RECURSIVE CollapseSpaces(_)
CollapseSpaces(s) ==
    IF s = <<>> THEN <<>>
    ELSE IF IsSpace(Head(s)) THEN <<" ">> \o CollapseSpaces(LStrip(Tail(s)))
    ELSE <<Head(s)>> \o CollapseSpaces(Tail(s))

normalize_key(value) == LowerStr(Strip(CollapseSpaces(value)))

\* "|".join(parts)
RECURSIVE JoinBar(_)
JoinBar(parts) ==
    IF parts = <<>> THEN <<>>
    ELSE IF Len(parts) = 1 THEN parts[1]
    ELSE parts[1] \o <<"|">> \o JoinBar(Tail(parts))

\* hashlib.sha256(key).hexdigest(): an ideal digest, one value per key
sha256(key) == <<"sha256", key>>

fingerprint_key(place) ==
    JoinBar(<<normalize_key(place.name),
              normalize_key(place.address),
              normalize_key(place.phone_number),
              normalize_key(place.website)>>)

build_fingerprint_with_email(place) ==
    sha256(fingerprint_key(place) \o <<"|">> \o normalize_key(place.email))

build_fingerprint(place) == sha256(fingerprint_key(place))

(***************************************************************************)
(* Sample texts: what extract_text can return for a field of a listing     *)
(***************************************************************************)

Place(n, a, w, ph, e) ==
    [name |-> n, address |-> a, website |-> w, phone_number |-> ph, email |-> e,
     facebook |-> <<>>, instagram |-> <<>>, twitter |-> <<>>, linkedin |-> <<>>]

FpNames ==
    { <<>>, <<"a">>, <<"A">>, <<" ", "a", "\t">>, <<"a", " ", "b">>,
      <<"A", "\n", " ", "B">>, <<"|">>, <<"a", "|">> }
FpAddresses == { <<>>, <<"|">>, <<"c">> }
FpPhones    == { <<>>, <<"1">> }
FpWebsites  == { <<>>, <<"W", ".", "c">> }
FpEmails    == { <<>>, <<"x", "@", "w", ".", "c", "c">> }

FpPlaces ==
    { Place(n, a, w, ph, e) :
        n \in FpNames, a \in FpAddresses, w \in FpWebsites, ph \in FpPhones,
        e \in FpEmails }

NoPlace == Place(<<>>, <<>>, <<>>, <<>>, <<>>)

\* a fingerprint not computed yet
NoFingerprint == <<>>

(***************************************************************************)
(* The fingerprint store: the leads table as a set of rows                 *)
(***************************************************************************)

\* SQL NULL in the email column
Null == <<"NULL">>

Row(fingerprint, place, email, updated_at) ==
    [fingerprint |-> fingerprint, name |-> place.name, address |-> place.address,
     website |-> place.website, phone_number |-> place.phone_number,
     email |-> email, updated_at |-> updated_at]

\* SELECT ... FROM leads WHERE fingerprint = ?
select_rows(conn, fingerprint) == { r \in conn : r.fingerprint = fingerprint }

is_duplicate_any_row(conn, fingerprint, email) ==
    select_rows(conn, fingerprint) /= {}

is_duplicate(conn, fingerprint, email) ==
    LET rows == select_rows(conn, fingerprint) IN
    IF rows = {} THEN FALSE
    ELSE LET row == CHOOSE r \in rows : TRUE
             existing_email == Strip(IF row.email = Null THEN <<>> ELSE row.email)
         IN  IF existing_email /= <<>> THEN TRUE ELSE email = <<>>

\* the ON CONFLICT(fingerprint) DO UPDATE branch for one stored row
merge_row(old, fingerprint, place, t) ==
    Row(fingerprint, place,
        IF old.email = Null \/ old.email = <<>> THEN place.email ELSE old.email,
        t)

upsert_lead_overwrite_email(conn, fingerprint, place, t) ==
    (conn \ select_rows(conn, fingerprint))
        \cup { Row(fingerprint, place, place.email, t) }

upsert_lead_keep_identity(conn, fingerprint, place, t) ==
    LET rows == select_rows(conn, fingerprint) IN
    IF rows = {} THEN conn \cup { Row(fingerprint, place, place.email, t) }
    ELSE (conn \ rows)
            \cup { [r EXCEPT !.email = merge_row(r, fingerprint, place, t).email,
                             !.updated_at = t] : r \in rows }

upsert_lead_plain_insert(conn, fingerprint, place, t) ==
    conn \cup { Row(fingerprint, place, place.email, t) }

upsert_lead_touch_all(conn, fingerprint, place, t) ==
    LET rows == select_rows(conn, fingerprint)
        merged == IF rows = {} THEN { Row(fingerprint, place, place.email, t) }
                  ELSE { merge_row(r, fingerprint, place, t) : r \in rows }
    IN  { [r EXCEPT !.updated_at = t] : r \in conn \ rows } \cup merged

\* INSERT ... ON CONFLICT(fingerprint) DO UPDATE ...; commit
upsert_lead(conn, fingerprint, place, t) ==
    LET rows == select_rows(conn, fingerprint) IN
    IF rows = {} THEN conn \cup { Row(fingerprint, place, place.email, t) }
    ELSE (conn \ rows) \cup { merge_row(r, fingerprint, place, t) : r \in rows }

\* the fingerprints whose stored email is not empty
WithEmail(conn) == { r.fingerprint : r \in { q \in conn : q.email \notin {Null, <<>>} } }

(***************************************************************************)
(* Idle values of the variables a specification does not use               *)
(***************************************************************************)

NoOp == [op |-> "none"]

\* the arguments of scrape_places; max_listings_arg is <<>> for None and <<n>>
\* for the integer n, max_listings the local variable after lines 451-455
Cfg(total, include_without_email, extract_emails, dedup_enabled, max_scroll_attempts, max_listings_arg, callback) ==
    [total |-> total, include_without_email |-> include_without_email,
     extract_emails |-> extract_emails, dedup_enabled |-> dedup_enabled,
     max_scroll_attempts |-> max_scroll_attempts,
     max_listings_arg |-> max_listings_arg,
     max_listings |-> IF max_listings_arg = <<>> THEN total
                      ELSE IF max_listings_arg[1] > total THEN max_listings_arg[1]
                      ELSE total,
     callback |-> callback]

NoCfg == Cfg(0, FALSE, FALSE, FALSE, 0, <<>>, FALSE)

NoStats ==
    [total_searched |-> 0, successful_scrapes |-> 0, failed_scrapes |-> 0,
     duplicates_skipped |-> 0, emails_found |-> 0, websites_visited |-> 0,
     social_media_found |-> 0]

IdleFp == pa = NoPlace /\ pb = NoPlace /\ fa = NoFingerprint /\ fb = NoFingerprint

IdleStore == store = {} /\ now = 0 /\ lastOp = NoOp /\ hadEmail = {}

IdleScroll ==
    previously_counted = 0 /\ scroll_attempts = 0 /\ found = 0 /\ streak = 0

IdleRun ==
    /\ places = <<>> /\ stats = NoStats
    /\ listings_processed = 0 /\ listings_total = 0
    /\ dedup_conn = "none" /\ browser = "none" /\ exc = FALSE
    /\ lastListing = NoOp /\ conn_log = <<>>

\* no wrapper call and no resolve call made
NoRetry == [status |-> "idle"]

NoResolveIn == [website_url |-> <<>>]

NoResolved == [status |-> "idle"]

IdleResolver == retry = NoRetry /\ resolve_in = NoResolveIn /\ resolved = NoResolved

\* a first call, of which nothing is recorded
IdleReplay == run = 1 /\ feed = <<>> /\ journal = <<>> /\ first = <<>>

(***************************************************************************)
(* build_fingerprint on two Places                                         *)
(***************************************************************************)

FpInit ==
    /\ pc = "fp_input" /\ cfg = NoCfg
    /\ pa \in FpPlaces /\ pb \in FpPlaces
    /\ fa = NoFingerprint /\ fb = NoFingerprint
    /\ IdleStore /\ IdleScroll /\ IdleRun /\ IdleResolver /\ IdleReplay

Fingerprint ==
    /\ pc = "fp_input"
    /\ fa' = build_fingerprint(pa)
    /\ fb' = build_fingerprint(pb)
    /\ pc' = "fp_done"
    /\ UNCHANGED <<pa, pb, cfg, storeVars, scrollVars, runVars, resolverVars, replayVars>>

FpNext == Fingerprint

SpecFp == FpInit /\ [][FpNext]_vars

\* The normal form of a text, stated without the code's substitutions: a
\* whitespace character stays (as one space) only where it opens a run that has
\* text on both sides; every other character stays, lower-cased.
KeptAt(s, i) ==
    \/ ~IsSpace(s[i])
    \/ /\ i > 1 /\ ~IsSpace(s[i - 1])
       /\ \E j \in (i + 1)..Len(s) : ~IsSpace(s[j])

RECURSIVE NormalFrom(_, _)
NormalFrom(s, i) ==
    IF i > Len(s) THEN <<>>
    ELSE (IF ~KeptAt(s, i) THEN <<>>
          ELSE IF IsSpace(s[i]) THEN <<" ">> ELSE <<Lower(s[i])>>)
         \o NormalFrom(s, i + 1)

NormalForm(s) == NormalFrom(s, 1)

SameIdentity(p, q) ==
    /\ NormalForm(p.name) = NormalForm(q.name)
    /\ NormalForm(p.address) = NormalForm(q.address)
    /\ NormalForm(p.phone_number) = NormalForm(q.phone_number)
    /\ NormalForm(p.website) = NormalForm(q.website)

\* C5: two Places whose name, address, phone and website are equal after
\* normalisation get the same fingerprint, whatever their emails are.
C5_SameIdentitySameFingerprint ==
    (pc = "fp_done" /\ SameIdentity(pa, pb)) => fa = fb

C5_Witness ==
    /\ pc = "fp_done" /\ SameIdentity(pa, pb)
    /\ pa.name /= pb.name /\ pa.email /= pb.email /\ fa = fb

\* C6 as claimed: two Places that differ in a normalised identity field get
\* different pre-digest keys and different fingerprints.
C6_DistinctIdentityDistinctFingerprint ==
    (pc = "fp_done" /\ ~SameIdentity(pa, pb)) =>
        (fingerprint_key(pa) /= fingerprint_key(pb) /\ fa /= fb)

(***************************************************************************)
(* The store's operations, called in any order on one persistent table     *)
(***************************************************************************)

\* the last second the clock of the store specification reaches
MaxTime == 2

Email1 == <<"x", "@", "w", ".", "c", "c">>
Email2 == <<"y", "@", "w", ".", "c", "c">>
Site   == <<"W", ".", "c">>

\* what the resolver returns: the empty string or a match of the email pattern
StoreEmails == { <<>>, Email1, Email2 }

StorePlaces ==
    { Place(n, <<>>, Site, <<>>, e) :
        n \in { <<"A">>, <<"a", " ">>, <<"B">> }, e \in StoreEmails }

StoreInit ==
    /\ pc = "store" /\ cfg = NoCfg
    /\ store = {} /\ now = 0 /\ lastOp = NoOp /\ hadEmail = {}
    /\ IdleFp /\ IdleScroll /\ IdleRun /\ IdleResolver /\ IdleReplay

\* a second passes
Tick ==
    /\ pc = "store" /\ now < MaxTime
    /\ now' = now + 1
    /\ UNCHANGED <<store, lastOp, hadEmail, pc, cfg, fpVars, resolverVars, replayVars, scrollVars, runVars>>

\* upsert_lead(conn, build_fingerprint(place), place)
StoreUpsert(place) ==
    LET fingerprint == build_fingerprint(place) IN
    /\ pc = "store"
    /\ store' = upsert_lead(store, fingerprint, place, now)
    /\ lastOp' = [op |-> "upsert", fingerprint |-> fingerprint, place |-> place,
                  before |-> select_rows(store, fingerprint), at |-> now,
                  repeat |-> (lastOp.op = "upsert" /\ lastOp.place = place)]
    /\ hadEmail' = hadEmail \cup WithEmail(store')
    /\ UNCHANGED <<now, pc, cfg, fpVars, resolverVars, replayVars, scrollVars, runVars>>

\* is_duplicate(conn, fingerprint, email)
StoreIsDuplicate(fingerprint, email) ==
    /\ pc = "store"
    /\ lastOp' = [op |-> "is_duplicate", fingerprint |-> fingerprint, email |-> email,
                  result |-> is_duplicate(store, fingerprint, email),
                  known |-> (fingerprint \in hadEmail)]
    /\ UNCHANGED <<store, now, hadEmail, pc, cfg, fpVars, resolverVars, replayVars, scrollVars, runVars>>

StoreNext ==
    \/ Tick
    \/ \E place \in StorePlaces : StoreUpsert(place)
    \/ \E place \in StorePlaces, email \in StoreEmails :
            StoreIsDuplicate(build_fingerprint(place), email)

SpecStore == StoreInit /\ [][StoreNext]_vars

HasEmail(r) == r.email \notin {Null, <<>>}

\* C1: is_duplicate answers true exactly when the store has a record with the
\* fingerprint and either the stored email is non-empty or the candidate email
\* is empty; for a fingerprint not in the store it answers false.
C1_IsDuplicateContract ==
    lastOp.op = "is_duplicate" =>
        (lastOp.result <=>
            \E r \in store :
                /\ r.fingerprint = lastOp.fingerprint
                /\ (HasEmail(r) \/ lastOp.email = <<>>))

C1_Witness ==
    /\ lastOp.op = "is_duplicate" /\ ~lastOp.result /\ lastOp.email /= <<>>
    /\ \E r \in store : r.fingerprint = lastOp.fingerprint /\ ~HasEmail(r)

\* C2: once the store has held a non-empty email for a fingerprint, every later
\* is_duplicate call for it answers true, whatever the candidate email.
C2_IsDuplicateMonotonic ==
    (lastOp.op = "is_duplicate" /\ lastOp.known) => lastOp.result

C2_Witness ==
    /\ lastOp.op = "is_duplicate" /\ lastOp.known /\ lastOp.result
    /\ lastOp.email /= <<>>
    /\ \E r \in store :
        /\ r.fingerprint = lastOp.fingerprint
        /\ r.email /= lastOp.email /\ r.updated_at > 0

\* C3: an upsert on an existing fingerprint replaces the stored email only when
\* it is empty or null, and always overwrites name, address, website and phone.
C3_UpsertMerge ==
    (lastOp.op = "upsert" /\ lastOp.before /= {}) =>
        /\ select_rows(store, lastOp.fingerprint) /= {}
        /\ \A old \in lastOp.before : \A r \in select_rows(store, lastOp.fingerprint) :
            /\ r.email = (IF HasEmail(old) THEN old.email ELSE lastOp.place.email)
            /\ r.name = lastOp.place.name
            /\ r.address = lastOp.place.address
            /\ r.website = lastOp.place.website
            /\ r.phone_number = lastOp.place.phone_number

C3_Witness ==
    /\ lastOp.op = "upsert"
    /\ \E old \in lastOp.before :
        /\ HasEmail(old) /\ lastOp.place.email \notin {<<>>, old.email}
        /\ old.name /= lastOp.place.name
        /\ \E r \in store : r.fingerprint = lastOp.fingerprint /\ r.email = old.email

IdentityAndEmail(r) == <<r.name, r.address, r.website, r.phone_number, r.email>>

\* C4 as claimed: a second upsert of the same Place leaves the record identical
\* in every field, the last-updated timestamp included.
C4_UpsertIdempotentEveryField ==
    (lastOp.op = "upsert" /\ lastOp.repeat) =>
        /\ select_rows(store, lastOp.fingerprint) = lastOp.before
        /\ Cardinality(lastOp.before) = 1

\* C4 as amended: a second upsert of the same Place leaves name, address, website,
\* phone and email as the first left them, the store holds exactly one record for
\* the fingerprint, and the timestamp is the time of the second upsert.
C4_UpsertIdempotentButTimestamp ==
    (lastOp.op = "upsert" /\ lastOp.repeat) =>
        /\ Cardinality(select_rows(store, lastOp.fingerprint)) = 1
        /\ Cardinality(lastOp.before) = 1
        /\ \A old \in lastOp.before : \A r \in select_rows(store, lastOp.fingerprint) :
            /\ IdentityAndEmail(r) = IdentityAndEmail(old)
            /\ r.updated_at = lastOp.at

C4_Witness ==
    /\ lastOp.op = "upsert" /\ lastOp.repeat
    /\ \E old \in lastOp.before : \E r \in select_rows(store, lastOp.fingerprint) :
        /\ r.updated_at /= old.updated_at
        /\ IdentityAndEmail(r) = IdentityAndEmail(old)

(***************************************************************************)
(* scrape_places: the listing discovery loop                               *)
(***************************************************************************)

\* the largest number of listings the result page reports
MaxFound == 3

\* the largest max_scroll_attempts a caller passes
MaxAttempts == 2

\* the largest target (total) a caller passes
MaxTarget == 2

\* one round of the while loop of lines 554-569: scroll, count n listings,
\* notify (the callback may raise), stop at the ceiling, else update the
\* stagnation counter
ScrollRound(n, raises) ==
    /\ pc = "scroll"
    /\ scroll_attempts < cfg.max_scroll_attempts
    /\ raises => cfg.callback
    /\ found' = n
    /\ IF raises
       THEN /\ pc' = "finally_browser" /\ exc' = TRUE
            /\ UNCHANGED <<scroll_attempts, previously_counted, streak>>
       ELSE IF n >= cfg.max_listings
       THEN /\ pc' = "listings"
            /\ UNCHANGED <<scroll_attempts, previously_counted, streak, exc>>
       ELSE /\ scroll_attempts' =
                   IF n = previously_counted THEN scroll_attempts + 1 ELSE 0
            /\ previously_counted' = n
            /\ streak' = IF n <= previously_counted THEN streak + 1 ELSE 0
            /\ UNCHANGED <<pc, exc>>
    /\ UNCHANGED <<cfg, fpVars, resolverVars, replayVars, storeVars, places, stats, listings_processed,
                   listings_total, dedup_conn, browser, lastListing, conn_log>>

\* the while condition of line 554 is false
ScrollExit ==
    /\ pc = "scroll"
    /\ ~(scroll_attempts < cfg.max_scroll_attempts)
    /\ pc' = "listings"
    /\ UNCHANGED <<cfg, fpVars, resolverVars, replayVars, storeVars, scrollVars, runVars>>

ScrollCfgs ==
    { Cfg(total, FALSE, TRUE, FALSE, msa, mla, cb) :
        total \in 1..MaxTarget, msa \in 0..MaxAttempts,
        mla \in { <<>>, <<MaxFound>>, <<MaxFound + 1>> }, cb \in BOOLEAN }

ScrollInit ==
    /\ pc = "scroll" /\ cfg \in ScrollCfgs
    /\ IdleFp /\ IdleStore /\ IdleScroll /\ IdleRun /\ IdleResolver /\ IdleReplay

ScrollNext ==
    \/ \E n \in 0..MaxFound, raises \in BOOLEAN : ScrollRound(n, raises)
    \/ ScrollExit

SpecScroll == ScrollInit /\ [][ScrollNext]_vars

\* the loop is sequential code: a round that can run does run
FairScroll == SpecScroll /\ WF_vars(ScrollNext)

\* C7 as claimed: once max_scroll_attempts consecutive rounds have each reported
\* a count not greater than the count before, the loop runs no further round.
C7_StopsAfterNonIncreasingStreak ==
    (pc = "scroll" /\ streak >= cfg.max_scroll_attempts) =>
        ~(scroll_attempts < cfg.max_scroll_attempts)

\* C8 as claimed: with max_scroll_attempts >= 1, a source whose count never
\* reaches the ceiling makes the loop end.
C8_LoopEnds ==
    (cfg.max_scroll_attempts >= 1 /\ [](found < cfg.max_listings)) => <>(pc /= "scroll")

(***************************************************************************)
(* retry_on_failure: the wrapper around a function that may raise          *)
(***************************************************************************)

\* @retry_on_failure(max_retries=3, delay=1) on extract_emails_from_website
MaxRetries == 3

BaseDelay == 1

\* what one call of the wrapped function does: it raises value or returns it
Raises(value) == [raises |-> TRUE, value |-> value]

Returns(value) == [raises |-> FALSE, value |-> value]

\* the wrapper entered (line 139): script[k] is what the k-th call of func does
retry_start(max_retries, delay, script) ==
    [max_retries |-> max_retries, script |-> script, attempt |-> 0,
     current_delay |-> delay, calls |-> 0, slept |-> <<>>,
     status |-> "running", value |-> <<>>]

retry_step_no_backoff(r, outcome) ==
    IF ~outcome.raises
    THEN [r EXCEPT !.calls = @ + 1, !.status = "returned", !.value = outcome.value]
    ELSE IF r.attempt = r.max_retries - 1
    THEN [r EXCEPT !.calls = @ + 1, !.status = "raised", !.value = outcome.value]
    ELSE [r EXCEPT !.calls = @ + 1, !.slept = Append(@, r.current_delay),
                   !.attempt = @ + 1]

\* one iteration of the for loop of lines 140-150
retry_step(r, outcome) ==
    IF ~outcome.raises
    THEN [r EXCEPT !.calls = @ + 1, !.status = "returned", !.value = outcome.value]
    ELSE IF r.attempt = r.max_retries - 1
    THEN [r EXCEPT !.calls = @ + 1, !.status = "raised", !.value = outcome.value]
    ELSE [r EXCEPT !.calls = @ + 1, !.slept = Append(@, r.current_delay),
                   !.current_delay = @ * 2, !.attempt = @ + 1]

\* the wrapper run to its return or raise
RECURSIVE wrapper(_)
wrapper(r) ==
    IF r.status /= "running" THEN r
    ELSE wrapper(retry_step(r, r.script[r.attempt + 1]))

\* the exceptions and the results of the sample wrapped function
RetryOutcomes ==
    { Raises(<<"ConnectionError">>), Raises(<<"Timeout">>),
      Returns(<<>>), Returns(Email1), Returns(Email2) }

RetryInit ==
    /\ pc = "retry" /\ cfg = NoCfg
    /\ retry \in { retry_start(MaxRetries, BaseDelay, script) :
                     script \in [1..MaxRetries -> RetryOutcomes] }
    /\ resolve_in = NoResolveIn /\ resolved = NoResolved
    /\ IdleFp /\ IdleStore /\ IdleScroll /\ IdleRun /\ IdleReplay

\* the next call of the wrapped function and what the wrapper does with it
RetryAttempt ==
    /\ pc = "retry"
    /\ retry.status = "running"
    /\ retry' = retry_step(retry, retry.script[retry.attempt + 1])
    /\ UNCHANGED <<pc, cfg, resolve_in, resolved, fpVars, storeVars, scrollVars,
                   runVars, replayVars>>

RetryNext == RetryAttempt

SpecRetry == RetryInit /\ [][RetryNext]_vars

\* the first call of the script that returns, 0 when every call raises
FirstReturn(script) ==
    IF \A k \in DOMAIN script : script[k].raises THEN 0
    ELSE CHOOSE k \in DOMAIN script :
            /\ ~script[k].raises
            /\ \A j \in 1..(k - 1) : script[j].raises

\* C12: with max_retries=3 and delay=1, a function that raises on every call is
\* called exactly 3 times, the wrapper sleeps 1 after the first failure and 2
\* after the second and not after the third, and the third exception reaches
\* the caller; when call k <= 3 returns, its result is returned after exactly k
\* calls (and the sleeps of the k-1 failures before it).
C12_RetryPolicy ==
    (pc = "retry" /\ retry.status /= "running") =>
        LET k == FirstReturn(retry.script) IN
        IF k = 0
        THEN /\ retry.status = "raised"
             /\ retry.calls = 3
             /\ retry.slept = <<1, 2>>
             /\ retry.value = retry.script[3].value
        ELSE /\ retry.status = "returned"
             /\ retry.calls = k
             /\ retry.value = retry.script[k].value
             /\ retry.slept = SubSeq(<<1, 2>>, 1, k - 1)

\* the third call returns after two failures: 3 calls, sleeps of 1 and 2
C12_Witness ==
    /\ pc = "retry" /\ retry.status = "returned"
    /\ retry.calls = 3 /\ retry.slept = <<1, 2>> /\ retry.value = Email1

(***************************************************************************)
(* extract_emails_from_website: the website email resolver                 *)
(***************************************************************************)

\* the text "None Found"
NoneFound == <<"N", "o", "n", "e", " ", "F", "o", "u", "n", "d">>

\* lines 220 and 597: the listing names a website
HasWebsite_not_empty(website) == website /= <<>>

HasWebsite(website) == website /= <<>> /\ website /= NoneFound

\* sub in s
Contains(s, sub) ==
    \E i \in 0..(Len(s) - Len(sub)) : SubSeq(s, i + 1, i + Len(sub)) = sub

\* s.count(c)
Count(s, c) == Cardinality({ i \in 1..Len(s) : s[i] = c })

\* s.startswith(prefix)
StartsWith(s, prefix) ==
    Len(s) >= Len(prefix) /\ SubSeq(s, 1, Len(prefix)) = prefix

\* lines 225-226
with_scheme(website_url) ==
    IF StartsWith(website_url, <<"h", "t", "t", "p", ":", "/", "/">>)
         \/ StartsWith(website_url, <<"h", "t", "t", "p", "s", ":", "/", "/">>)
    THEN website_url
    ELSE <<"h", "t", "t", "p", "s", ":", "/", "/">> \o website_url

\* the netloc urlparse takes from a URL with a scheme: the text after "//" up
\* to the first "/", "?" or "#"
RECURSIVE UpToDelimiter(_)
UpToDelimiter(s) ==
    IF s = <<>> \/ Head(s) \in {"/", "?", "#"} THEN <<>>
    ELSE <<Head(s)>> \o UpToDelimiter(Tail(s))

RECURSIVE AfterSlashes(_)
AfterSlashes(s) ==
    IF Len(s) < 2 THEN <<>>
    ELSE IF s[1] = "/" /\ s[2] = "/" THEN SubSeq(s, 3, Len(s))
    ELSE AfterSlashes(Tail(s))

netloc(url) == UpToDelimiter(AfterSlashes(url))

\* line 229: urlparse raises ValueError on a netloc with one bracket of an
\* IPv6 literal and not the other
urlparse_raises(url) ==
    LET n == netloc(url) IN
    \/ Count(n, "[") > 0 /\ Count(n, "]") = 0
    \/ Count(n, "]") > 0 /\ Count(n, "[") = 0

\* lines 238-244, by the page each URL names
pages_to_try == <<"homepage", "/contact", "/contact-us", "/about", "/about-us">>

\* what requests.get, raise_for_status and re.findall give for one page: an
\* exception, or the list of the email-pattern matches of the response text
FetchFails == [ok |-> FALSE, emails |-> <<>>]

FetchGives(emails) == [ok |-> TRUE, emails |-> emails]

\* what the loop has fetched and collected: sources[i] is the page of
\* all_emails[i]
Collected(fetched, all_emails, sources) ==
    [fetched |-> fetched, all_emails |-> all_emails, sources |-> sources]

RECURSIVE fetch_pages_no_break(_, _, _)
fetch_pages_no_break(responses, i, c) ==
    IF i > Len(pages_to_try) THEN c
    ELSE LET page_url == pages_to_try[i]
             response == responses[i]
             fetched  == Append(c.fetched, page_url)
         IN  IF ~response.ok
             THEN fetch_pages_no_break(responses, i + 1,
                                       Collected(fetched, c.all_emails, c.sources))
             ELSE fetch_pages_no_break(responses, i + 1,
                    Collected(fetched, c.all_emails \o response.emails,
                              c.sources \o [j \in 1..Len(response.emails) |-> page_url]))

\* the for loop of lines 248-265 from page i on
RECURSIVE fetch_pages(_, _, _)
fetch_pages(responses, i, c) ==
    IF i > Len(pages_to_try) THEN c
    ELSE LET page_url == pages_to_try[i]
             response == responses[i]
             fetched  == Append(c.fetched, page_url)
         IN  IF ~response.ok
             THEN fetch_pages(responses, i + 1,
                              Collected(fetched, c.all_emails, c.sources))
             ELSE LET all_emails == c.all_emails \o response.emails
                      sources == c.sources
                                   \o [j \in 1..Len(response.emails) |-> page_url]
                  IN  IF response.emails /= <<>>
                      THEN Collected(fetched, all_emails, sources)
                      ELSE fetch_pages(responses, i + 1,
                                       Collected(fetched, all_emails, sources))

\* str.lower() on a filter mode
LowerMode(mode) ==
    IF mode = "STRICT" THEN "strict"
    ELSE IF mode = "Balanced" THEN "balanced"
    ELSE IF mode = "NONE" THEN "none"
    ELSE mode

\* lines 267-269
normalize_mode(email_filter_mode) ==
    LET m == LowerMode(IF email_filter_mode = "" THEN "strict" ELSE email_filter_mode)
    IN  IF m \notin {"strict", "balanced", "none"} THEN "strict" ELSE m

\* lines 280-284
support_keywords ==
    << <<"s", "u", "p", "p", "o", "r", "t">>,
       <<"h", "e", "l", "p">>,
       <<"i", "n", "f", "o">>,
       <<"c", "o", "n", "t", "a", "c", "t">>,
       <<"a", "d", "m", "i", "n">>,
       <<"n", "o", "r", "e", "p", "l", "y">>,
       <<"n", "o", "-", "r", "e", "p", "l", "y">>,
       <<"s", "a", "l", "e", "s">>,
       <<"f", "e", "e", "d", "b", "a", "c", "k">>,
       <<"a", "b", "u", "s", "e">>,
       <<"w", "e", "b", "m", "a", "s", "t", "e", "r">> >>

placeholders ==
    << <<"u", "s", "e", "r", "@", "d", "o", "m", "a", "i", "n", ".", "c", "o", "m">>,
       <<"e", "x", "a", "m", "p", "l", "e", ".", "c", "o", "m">>,
       <<"y", "o", "u", "r", "n", "a", "m", "e", "@">>,
       <<"e", "m", "a", "i", "l", "@", "d", "o", "m", "a", "i", "n", ".", "c", "o", "m">> >>

invalid_substrings ==
    << <<".", "j", "p", "g">>,
       <<".", "p", "n", "g">>,
       <<".", "g", "i", "f">>,
       <<".", "p", "d", "f">>,
       <<".", "z", "i", "p">>,
       <<"@", "m", "o", "b", "i", "l", "e">>,
       <<"@", "d", "e", "s", "k", "t", "o", "p">> >>

\* any(item in text for item in items)
AnyIn(items, text) == \E i \in 1..Len(items) : Contains(text, items[i])

\* the tests of lines 287-299: the email is skipped
skipped(email, mode) ==
    LET email_lower == LowerStr(email) IN
    \/ AnyIn(placeholders, email_lower)
    \/ AnyIn(invalid_substrings, email_lower)
    \/ Count(email, "@") /= 1
    \/ Count(email, ".") < 1
    \/ mode = "strict" /\ AnyIn(support_keywords, email_lower)

\* the loop of lines 286-301: the emails kept, each once, in order
RECURSIVE filter_emails(_, _, _)
filter_emails(all_emails, mode, filtered_emails) ==
    IF all_emails = <<>> THEN filtered_emails
    ELSE LET email == Head(all_emails) IN
         filter_emails(Tail(all_emails), mode,
            IF skipped(email, mode) THEN filtered_emails
            ELSE IF \E i \in 1..Len(filtered_emails) : filtered_emails[i] = email
            THEN filtered_emails
            ELSE Append(filtered_emails, email))

select_email_unfiltered(all_emails, email_filter_mode) ==
    IF all_emails /= <<>> THEN all_emails[1] ELSE <<>>

\* lines 267-307: the email returned for the collected matches
select_email(all_emails, email_filter_mode) ==
    LET mode == normalize_mode(email_filter_mode) IN
    IF mode = "none"
    THEN IF all_emails /= <<>> THEN all_emails[1] ELSE <<>>
    ELSE LET filtered_emails == filter_emails(all_emails, mode, <<>>) IN
         IF filtered_emails /= <<>> THEN filtered_emails[1] ELSE <<>>

\* what one call of the function does and leaves behind
Call(raises, value, c) ==
    [raises |-> raises, value |-> value, fetched |-> c.fetched,
     all_emails |-> c.all_emails, sources |-> c.sources]

NothingFetched == Collected(<<>>, <<>>, <<>>)

\* the try block of lines 223-307
try_block(website_url, email_filter_mode, responses) ==
    IF urlparse_raises(with_scheme(website_url))
    THEN Call(TRUE, <<"ValueError">>, NothingFetched)
    ELSE LET c == fetch_pages(responses, 1, NothingFetched) IN
         Call(FALSE, select_email(c.all_emails, email_filter_mode), c)

\* the function under the decorator, lines 215-311: the except clause of line
\* 309 turns every exception of the try block into the result ""
func(website_url, email_filter_mode, responses) ==
    IF ~HasWebsite(website_url) THEN Call(FALSE, <<>>, NothingFetched)
    ELSE LET t == try_block(website_url, email_filter_mode, responses) IN
         IF t.raises THEN [t EXCEPT !.raises = FALSE, !.value = <<>>] ELSE t

\* the decorated function: the wrapper of retry_on_failure(3, 1) around func,
\* every call of func meeting the same page responses
extract_emails_from_website(website_url, email_filter_mode, responses) ==
    LET call == CHOOSE c \in { func(website_url, email_filter_mode, responses) } : TRUE
        r == wrapper(retry_start(MaxRetries, BaseDelay,
                                 [k \in 1..MaxRetries |-> call]))
    IN  [status |-> r.status, email |-> r.value, calls |-> r.calls,
         slept |-> r.slept, fetched |-> call.fetched,
         fetches |-> r.calls * Len(call.fetched),
         all_emails |-> call.all_emails, sources |-> call.sources]

\* sample matches of the email pattern: a role account, an image file name, a
\* placeholder
RoleEmail == <<"A", "d", "m", "i", "n", "@", "w", ".", "c", "c">>

ImageEmail == <<"a", "@", "2", "x", ".", "p", "n", "g">>

PlaceholderEmail == <<"a", "@", "e", "x", "a", "m", "p", "l", "e", ".", "c", "o", "m">>

PageResponses ==
    { FetchFails, FetchGives(<<>>), FetchGives(<<Email1>>),
      FetchGives(<<RoleEmail, Email2, Email2>>),
      FetchGives(<<ImageEmail, PlaceholderEmail>>) }

\* a website text whose URL urlparse rejects
BadSite == <<"[">>

ResolveWebsites == { <<>>, NoneFound, Site, BadSite }

FilterModes == {"strict", "balanced", "none", "NONE", "", "loose"}

ResolveInit ==
    /\ pc = "resolve" /\ cfg = NoCfg
    /\ resolve_in \in
         [website_url : ResolveWebsites, email_filter_mode : FilterModes,
          responses : [1..Len(pages_to_try) -> PageResponses]]
    /\ retry = NoRetry /\ resolved = NoResolved
    /\ IdleFp /\ IdleStore /\ IdleScroll /\ IdleRun /\ IdleReplay

\* extract_emails_from_website(website, email_filter_mode=...)
Resolve ==
    /\ pc = "resolve"
    /\ resolved' = extract_emails_from_website(resolve_in.website_url,
                       resolve_in.email_filter_mode, resolve_in.responses)
    /\ pc' = "resolved"
    /\ UNCHANGED <<cfg, retry, resolve_in, fpVars, storeVars, scrollVars, runVars,
                   replayVars>>

ResolveNext == Resolve

SpecResolve == ResolveInit /\ [][ResolveNext]_vars

\* page i of the call yields at least one match
Yields(i) == resolve_in.responses[i].ok /\ resolve_in.responses[i].emails /= <<>>

\* C14: the pages fetched by one call are a prefix of homepage, /contact,
\* /contact-us, /about, /about-us; no page is fetched after a page that
\* yielded a match; a page that failed or yielded nothing is followed by the
\* next candidate; so at most 5 pages are fetched and every collected match
\* comes from one page.
C14_PageIteration ==
    pc = "resolved" =>
        LET n == Len(resolved.fetched) IN
        /\ n <= 5
        /\ resolved.fetched =
             SubSeq(<<"homepage", "/contact", "/contact-us", "/about", "/about-us">>, 1, n)
        /\ \A i \in 1..(n - 1) : ~Yields(i)
        /\ (0 < n /\ n < 5) => Yields(n)
        /\ Cardinality({ resolved.sources[i] : i \in 1..Len(resolved.sources) }) <= 1
        /\ Len(resolved.sources) = Len(resolved.all_emails)

\* the homepage fails, /contact has no match, /contact-us has three, and two
\* later pages have matches that are never fetched
C14_Witness ==
    /\ pc = "resolved"
    /\ resolved.fetched = <<"homepage", "/contact", "/contact-us">>
    /\ ~resolve_in.responses[1].ok
    /\ resolve_in.responses[2] = FetchGives(<<>>)
    /\ Len(resolved.all_emails) = 3
    /\ Yields(4) /\ Yields(5)

(***************************************************************************)
(* scrape_places: one run on a store that an earlier run may have filled   *)
(***************************************************************************)

\* email_filter_mode as callers leave it (line 412)
email_filter_mode == "strict"

RunNames == { <<>>, <<"A">> }

\* what extract_social_media finds on the page of a listing (lines 177-204)
Links(facebook, instagram, twitter, linkedin) ==
    [facebook |-> facebook, instagram |-> instagram, twitter |-> twitter,
     linkedin |-> linkedin]

NoLinks == Links(<<>>, <<>>, <<>>, <<>>)

HasSocial_facebook_only(place) == place.facebook /= <<>>

\* line 615: any([place.facebook, place.instagram, place.twitter, place.linkedin])
HasSocial(place) ==
    \/ place.facebook /= <<>> \/ place.instagram /= <<>>
    \/ place.twitter /= <<>> \/ place.linkedin /= <<>>

RunWebsites == { <<>>, NoneFound, Site }

\* what extract_text reads from the panel of a listing (lines 334-336): a
\* panel that has not loaded shows neither text, a loaded one a name and a
\* website (the text "None Found" or a host)
ListingTexts ==
    { l \in [name : RunNames, website : RunWebsites, social : {NoLinks}] :
        (l.name = <<>>) <=> (l.website = <<>>) }

NoListing == [name |-> <<>>, website |-> <<>>, social |-> NoLinks]

\* the pages of a listing's website: every fetch fails, or the homepage has
\* one address
AllFail == [i \in 1..Len(pages_to_try) |-> FetchFails]

HomeGives(emails) == [AllFail EXCEPT ![1] = FetchGives(emails)]

RunResponses == { AllFail, HomeGives(<<Email1>>) }

NotInvoked_called ==
    [status |-> "returned", email |-> Email1, calls |-> 1, slept |-> <<>>,
     fetched |-> <<"homepage">>, fetches |-> 1, all_emails |-> <<Email1>>,
     sources |-> <<"homepage">>]

\* extract_emails is false: line 341, no call
NotInvoked ==
    [status |-> "returned", email |-> <<>>, calls |-> 0, slept |-> <<>>,
     fetched |-> <<>>, fetches |-> 0, all_emails |-> <<>>, sources |-> <<>>]

\* the fetched pages of one call whose fetch raised
FetchErrors(resolution, responses) ==
    Cardinality({ i \in 1..Len(resolution.fetched) : ~responses[i].ok })

RunCfgs ==
    { Cfg(total, iwe, ee, dedup, 1, mla, cb) :
        total \in 1..MaxTarget, iwe \in BOOLEAN, ee \in BOOLEAN,
        dedup \in BOOLEAN,
        mla \in { <<>>, <<MaxFound>> }, cb \in BOOLEAN }

\* the table before the run: new, or left by an earlier run that saved a lead
\* of the same business, seen then as "a " with an email
SeedStores ==
    { {}, upsert_lead({}, build_fingerprint(Place(<<"a", " ">>, <<>>, Site, <<>>, Email1)),
                      Place(<<"a", " ">>, <<>>, Site, <<>>, Email1), 0) }

Init ==
    /\ pc = "start" /\ cfg = NoCfg
    /\ store \in SeedStores /\ hadEmail = WithEmail(store)
    /\ now = 0 /\ lastOp = NoOp
    /\ IdleFp /\ IdleScroll /\ IdleRun /\ IdleResolver /\ IdleReplay

\* what init_dedup_db (lines 59-78) can do: return the connection, raise before
\* sqlite3.connect returns (makedirs, connect), or raise after it (the CREATE
\* TABLE or the commit, on a file that is not a database): the connection is
\* then open and no caller holds it
OpenOutcomes == {"ok", "no_connect", "no_schema"}

\* lines 421-463: fresh result list and counters, the scan ceiling, the store
\* opened when dedup is enabled, outside the try of line 465
StartRun(c, opening) ==
    /\ pc = "start"
    /\ cfg' = c
    /\ places' = <<>> /\ stats' = NoStats
    /\ listings_processed' = 0 /\ listings_total' = 0
    /\ lastListing' = NoOp
    /\ browser' = "none"
    /\ opening \in OpenOutcomes
    /\ opening /= "ok" => c.dedup_enabled
    /\ conn_log' = IF c.dedup_enabled /\ opening /= "no_connect"
                   THEN <<"open">> ELSE <<>>
    /\ IF opening = "ok"
       THEN /\ dedup_conn' = IF c.dedup_enabled THEN "open" ELSE "none"
            /\ exc' = FALSE /\ pc' = "launch"
       ELSE /\ dedup_conn' = "none" /\ exc' = TRUE /\ pc' = "raised"
    /\ UNCHANGED <<fpVars, resolverVars, replayVars, storeVars, scrollVars>>

\* lines 466-483: the first notification, the browser launch, the context and
\* the page; "no_page" fails after the browser is up, outside the inner try
Launch(outcome) ==
    /\ pc = "launch"
    /\ outcome \in {"ok", "no_browser", "no_page"}
    /\ browser' = IF outcome = "no_browser" THEN "none" ELSE "open"
    /\ exc' = (outcome /= "ok")
    /\ pc' = IF outcome = "ok" THEN "search" ELSE "with_exit"
    /\ UNCHANGED <<cfg, fpVars, resolverVars, replayVars, storeVars, scrollVars, places, stats,
                   listings_processed, listings_total, dedup_conn, lastListing, conn_log>>

\* lines 485-553: load the map, find the search box, search, hover the results
Search(ok) ==
    /\ pc = "search"
    /\ exc' = ~ok
    /\ pc' = IF ok THEN "scroll" ELSE "finally_browser"
    /\ previously_counted' = 0 /\ scroll_attempts' = 0
    /\ UNCHANGED <<found, streak>>
    /\ UNCHANGED <<cfg, fpVars, resolverVars, replayVars, storeVars, places, stats, listings_processed,
                   listings_total, dedup_conn, browser, lastListing, conn_log>>

\* lines 571-576: the listings on the page, n of them; the callback may raise
CollectListings(n, raises) ==
    /\ pc = "listings"
    /\ raises => cfg.callback
    /\ listings_total' = n
    /\ exc' = raises
    /\ pc' = IF raises THEN "finally_browser" ELSE "iterate"
    /\ previously_counted' = 0 /\ scroll_attempts' = 0 /\ found' = 0 /\ streak' = 0
    /\ UNCHANGED <<cfg, fpVars, resolverVars, replayVars, storeVars, places, stats, listings_processed,
                   dedup_conn, browser, lastListing, conn_log>>

should_save_named(place, include_without_email) == place.name /= <<>>

\* line 599
should_save(place, include_without_email) ==
    place.name /= <<>> /\ (include_without_email \/ place.email /= <<>>)

LoopContinues_no_ceiling ==
    /\ listings_processed < listings_total
    /\ ~(Len(places) >= cfg.total)

\* the for loop goes on: lines 579-585
LoopContinues ==
    /\ listings_processed < listings_total
    /\ ~(Len(places) >= cfg.total)
    /\ ~(listings_processed >= cfg.max_listings)

\* where one iteration can raise: the first notification (588), opening and
\* extracting the listing (589-596), is_duplicate (603), the notification of
\* the outcome (606, 619, 622, 629, 633), upsert_lead (624)
Faults == {"none", "progress", "open", "store_read", "notify", "store_write"}

\* line 339 for the sample websites and responses:
\* extract_emails_from_website(place.website, email_filter_mode=...)
Resolutions ==
    [website \in RunWebsites, responses \in RunResponses |->
        extract_emails_from_website(website, email_filter_mode, responses)]

One(b) == IF b THEN 1 ELSE 0

Tally_rejects_uncounted(s, visited, dup, saved, place, rejected, raised) ==
    [s EXCEPT
        !.websites_visited = @ + One(visited),
        !.duplicates_skipped = @ + One(dup),
        !.successful_scrapes = @ + One(saved),
        !.emails_found = @ + One(saved /\ place.email /= <<>>),
        !.social_media_found = @ + One(saved /\ HasSocial(place)),
        !.failed_scrapes = @ + One(raised)]

\* the counters after one iteration: lines 598, 604, 610, 614, 616, 627, 631
\* and 635
Tally(s, visited, dup, saved, place, rejected, raised) ==
    [s EXCEPT
        !.websites_visited = @ + One(visited),
        !.duplicates_skipped = @ + One(dup),
        !.successful_scrapes = @ + One(saved),
        !.emails_found = @ + One(saved /\ place.email /= <<>>),
        !.social_media_found = @ + One(saved /\ HasSocial(place)),
        !.failed_scrapes = @ + One(rejected) + One(raised)]

\* what the iteration does once the resolver has answered (or was not called)
ListingOutcome(listing, responses, resolution, fault, handler_raises) ==
    LET \* an exception of the resolver leaves extract_place and the try
        extracted == fault \notin {"progress", "open"}
                        /\ resolution.status /= "raised"
        place == IF extracted
                 THEN [Place(listing.name, <<>>, listing.website, <<>>,
                             resolution.email)
                         EXCEPT !.facebook = listing.social.facebook,
                                !.instagram = listing.social.instagram,
                                !.twitter = listing.social.twitter,
                                !.linkedin = listing.social.linkedin]
                 ELSE NoPlace
        visited == extracted /\ cfg.extract_emails /\ HasWebsite(place.website)
        eligible == extracted /\ should_save(place, cfg.include_without_email)
        fingerprint == build_fingerprint(place)
        checked == eligible /\ dedup_conn = "open" /\ fault /= "store_read"
        dup == checked /\ is_duplicate(store, fingerprint, place.email)
        saved == eligible /\ fault /= "store_read" /\ ~dup
        upserted == saved /\ dedup_conn = "open"
                        /\ fault \notin {"notify", "store_write"}
        rejected == extracted /\ ~eligible
        raised == fault /= "none" \/ ~extracted
    IN
    /\ resolution.status = "raised" => fault = "none"
    /\ fault = "store_read" => (eligible /\ dedup_conn = "open")
    /\ fault = "store_write" => (saved /\ dedup_conn = "open")
    /\ handler_raises => raised
    /\ listings_processed' = listings_processed + 1
    /\ now' = IF extracted THEN now + 1 ELSE now
    /\ places' = IF saved THEN Append(places, place) ELSE places
    /\ stats' = Tally(stats, visited, dup, saved, place, rejected, raised)
    /\ store' = IF upserted THEN upsert_lead(store, fingerprint, place, now')
                ELSE store
    /\ hadEmail' = hadEmail \cup WithEmail(store')
    /\ lastListing' = [op |-> "listing", fault |-> fault,
                       eligible |-> eligible, dup |-> dup, saved |-> saved,
                       upserted |-> upserted, checked |-> checked,
                       extracted |-> extracted, website |-> listing.website,
                       email |-> place.email, calls |-> resolution.calls,
                       fetches |-> resolution.fetches,
                       fetch_errors |-> FetchErrors(resolution, responses)]
    /\ exc' = handler_raises
    /\ pc' = IF handler_raises THEN "finally_browser" ELSE "iterate"

\* one iteration of lines 586-637 on a listing whose panel shows listing and
\* whose website answers with responses; fault is where the iteration raises,
\* handler_raises whether the notification of the except clause (637) raises
\* in its turn
ProcessListing(listing, responses, fault, handler_raises) ==
    LET invoked == fault \notin {"progress", "open"} /\ cfg.extract_emails IN
    /\ pc = "iterate"
    /\ LoopContinues
    /\ fault \in {"progress", "notify"} => cfg.callback
    /\ fault \in {"progress", "open"} => listing = NoListing
    /\ (invoked /\ HasWebsite(listing.website)) \/ responses = AllFail
    /\ handler_raises => cfg.callback
    /\ \E resolution \in
            { IF invoked THEN Resolutions[listing.website, responses]
              ELSE NotInvoked } :
         ListingOutcome(listing, responses, resolution, fault, handler_raises)
    /\ UNCHANGED <<cfg, fpVars, resolverVars, replayVars, lastOp, scrollVars, listings_total, dedup_conn,
                   browser, conn_log>>

\* the for loop ends: the listings are exhausted or a break of lines 580-585
LoopEnd ==
    /\ pc = "iterate"
    /\ ~LoopContinues
    /\ pc' = "finally_browser"
    /\ UNCHANGED <<cfg, fpVars, resolverVars, replayVars, storeVars, scrollVars, runVars>>

\* lines 638-642: browser.close()
CloseBrowser ==
    /\ pc = "finally_browser"
    /\ browser' = "closed"
    /\ pc' = "with_exit"
    /\ UNCHANGED <<cfg, fpVars, resolverVars, replayVars, storeVars, scrollVars, places, stats,
                   listings_processed, listings_total, dedup_conn, exc,
                   lastListing, conn_log>>

StopPlaywright_leaves_browser ==
    /\ pc = "with_exit"
    /\ pc' = "finally_store"
    /\ UNCHANGED <<cfg, fpVars, resolverVars, replayVars, storeVars, scrollVars, runVars>>

\* the end of the with block of line 466, left normally or by an exception:
\* sync_playwright's exit stops the driver, and with it a browser still open
StopPlaywright ==
    /\ pc = "with_exit"
    /\ browser' = IF browser = "open" THEN "stopped" ELSE browser
    /\ pc' = "finally_store"
    /\ UNCHANGED <<cfg, fpVars, resolverVars, replayVars, storeVars, scrollVars, places, stats,
                   listings_processed, listings_total, dedup_conn, exc,
                   lastListing, conn_log>>

\* lines 643-645; an exception on its way out reaches the caller
CloseStore ==
    /\ pc = "finally_store"
    /\ dedup_conn' = IF dedup_conn = "open" THEN "closed" ELSE dedup_conn
    /\ conn_log' = IF dedup_conn = "open" THEN Append(conn_log, "close")
                   ELSE conn_log
    /\ pc' = IF exc THEN "raised" ELSE "finalize"
    /\ UNCHANGED <<cfg, fpVars, resolverVars, replayVars, storeVars, scrollVars, places, stats,
                   listings_processed, listings_total, browser, exc,
                   lastListing>>

\* lines 647-653
Finalize ==
    /\ pc = "finalize"
    /\ stats' = [stats EXCEPT !.total_searched = listings_processed]
    /\ pc' = "done"
    /\ UNCHANGED <<cfg, fpVars, resolverVars, replayVars, storeVars, scrollVars, places,
                   listings_processed, listings_total, dedup_conn, browser, exc,
                   lastListing, conn_log>>

Next ==
    \/ \E c \in RunCfgs, opening \in OpenOutcomes : StartRun(c, opening)
    \/ \E outcome \in {"ok", "no_browser", "no_page"} : Launch(outcome)
    \/ \E ok \in BOOLEAN : Search(ok)
    \/ \E n \in 0..MaxFound, raises \in BOOLEAN : ScrollRound(n, raises)
    \/ ScrollExit
    \/ \E n \in 0..MaxFound, raises \in BOOLEAN : CollectListings(n, raises)
    \/ \E listing \in ListingTexts, responses \in RunResponses, fault \in Faults,
          handler_raises \in BOOLEAN :
            ProcessListing(listing, responses, fault, handler_raises)
    \/ LoopEnd
    \/ CloseBrowser
    \/ StopPlaywright
    \/ CloseStore
    \/ Finalize

Spec == Init /\ [][Next]_vars

(***************************************************************************)
(* scrape_places on listings with social links                             *)
(***************************************************************************)

\* a facebook page, or nothing but a linkedin page
SocialLinks ==
    { NoLinks, Links(<<"f", "b">>, <<>>, <<>>, <<>>),
      Links(<<>>, <<>>, <<>>, <<"l", "i">>) }

SocialListings ==
    { l \in [name : RunNames, website : { <<>>, Site }, social : SocialLinks] :
        (l.name = <<>>) <=> (l.website = <<>>) }

\* runs without a store, with a callback that may raise
SocialCfgs == { c \in RunCfgs : ~c.dedup_enabled /\ c.extract_emails /\ c.callback }

SocialInit == Init /\ store = {}

SocialNext ==
    \/ \E c \in SocialCfgs : StartRun(c, "ok")
    \/ \E outcome \in {"ok", "no_browser", "no_page"} : Launch(outcome)
    \/ \E ok \in BOOLEAN : Search(ok)
    \/ \E n \in 0..MaxFound, raises \in BOOLEAN : ScrollRound(n, raises)
    \/ ScrollExit
    \/ \E n \in 0..MaxFound, raises \in BOOLEAN : CollectListings(n, raises)
    \/ \E listing \in SocialListings, responses \in RunResponses, fault \in Faults,
          handler_raises \in BOOLEAN :
            ProcessListing(listing, responses, fault, handler_raises)
    \/ LoopEnd
    \/ CloseBrowser
    \/ StopPlaywright
    \/ CloseStore
    \/ Finalize

SpecSocial == SocialInit /\ [][SocialNext]_vars

(***************************************************************************)
(* scrape_places without a callback and without store errors               *)
(***************************************************************************)

QuietCfgs == { c \in RunCfgs : ~c.callback }

\* a listing raises only while it is opened and extracted
QuietFaults == {"none", "open"}

QuietNext ==
    \/ \E c \in QuietCfgs, opening \in OpenOutcomes : StartRun(c, opening)
    \/ \E outcome \in {"ok", "no_browser", "no_page"} : Launch(outcome)
    \/ \E ok \in BOOLEAN : Search(ok)
    \/ \E n \in 0..MaxFound : ScrollRound(n, FALSE)
    \/ ScrollExit
    \/ \E n \in 0..MaxFound : CollectListings(n, FALSE)
    \/ \E listing \in ListingTexts, responses \in RunResponses, fault \in QuietFaults :
            ProcessListing(listing, responses, fault, FALSE)
    \/ LoopEnd
    \/ CloseBrowser
    \/ StopPlaywright
    \/ CloseStore
    \/ Finalize

SpecQuiet == Init /\ [][QuietNext]_vars

(***************************************************************************)
(* scrape_places called twice on the same listings and one store           *)
(***************************************************************************)

\* what a listing shows and what its website answers, the same in both calls
FeedItems ==
    { i \in [listing : ListingTexts, responses : RunResponses] :
        HasWebsite(i.listing.website) \/ i.responses = AllFail }

\* the page of results: MaxFound listings
Feeds == [1..MaxFound -> FeedItems]

\* both calls use the store and resolve emails
ReplayCfgs == { c \in RunCfgs : c.dedup_enabled /\ c.extract_emails }

\* in a replayed iteration the data is given; what can still raise is the
\* notification of a saved lead (619, 622) and upsert_lead (624)
ReplayFaults == {"none", "notify", "store_write"}

ReplayInit ==
    /\ pc = "start" /\ cfg = NoCfg
    /\ store = {} /\ hadEmail = {} /\ now = 0 /\ lastOp = NoOp
    /\ IdleFp /\ IdleScroll /\ IdleRun /\ IdleResolver
    /\ run = 1 /\ feed \in Feeds /\ journal = <<>> /\ first = <<>>

\* the call: any arguments the first time, the same arguments the second
ReplayStart ==
    IF run = 1 THEN \E c \in ReplayCfgs : StartRun(c, "ok")
    ELSE StartRun(cfg, "ok")

\* one iteration of lines 586-637 on the next listing of the page (idx =
\* listings_processed at line 579, every iteration incrementing both)
ReplayListing(fault) ==
    LET item == feed[listings_processed + 1] IN
    /\ pc = "iterate"
    /\ LoopContinues
    /\ fault \in ReplayFaults
    /\ fault = "notify" => cfg.callback
    /\ ListingOutcome(item.listing, item.responses,
                      Resolutions[item.listing.website, item.responses],
                      fault, FALSE)
    /\ journal' = Append(journal, [saved |-> lastListing'.saved,
                                   dup |-> lastListing'.dup,
                                   email |-> lastListing'.email])
    /\ UNCHANGED <<cfg, fpVars, resolverVars, lastOp, scrollVars, listings_total,
                   dedup_conn, browser, conn_log, run, feed, first>>

\* the caller, holding the result of the first call, calls again
SecondRun ==
    /\ pc = "done" /\ run = 1
    /\ run' = 2 /\ first' = journal /\ journal' = <<>>
    /\ pc' = "start"
    /\ UNCHANGED <<cfg, feed, fpVars, resolverVars, storeVars, scrollVars, runVars>>

ReplayNext ==
    \/ ReplayStart
    \/ Launch("ok")
    \/ Search(TRUE)
    \/ \E n \in 0..MaxFound : ScrollRound(n, FALSE)
    \/ ScrollExit
    \/ CollectListings(Len(feed), FALSE)
    \/ \E fault \in ReplayFaults : ReplayListing(fault)
    \/ LoopEnd
    \/ CloseBrowser
    \/ StopPlaywright
    \/ CloseStore
    \/ Finalize
    \/ SecondRun

SpecReplay == ReplayInit /\ [][ReplayNext]_vars

\* C9: every Place of the result sequence has a non-empty name and, unless
\* include_without_email is set, a non-empty email: a listing is appended only
\* when it is save-eligible.
C9_ResultsAreSaveEligible ==
    \A i \in 1..Len(places) :
        /\ places[i].name /= <<>>
        /\ (cfg.include_without_email \/ places[i].email /= <<>>)

C9_Witness ==
    /\ Len(places) = 2 /\ ~cfg.include_without_email
    /\ stats.failed_scrapes >= 1
    /\ lastListing.op = "listing" /\ lastListing.saved

\* C10 as claimed: a save-eligible listing that is_duplicate reports as a
\* duplicate adds 1 to duplicates_skipped and changes neither the result
\* sequence, the store, successful_scrapes, failed_scrapes nor emails_found.
C10_DuplicateOnlyCounted ==
    [][(pc = "iterate" /\ listings_processed' = listings_processed + 1
            /\ lastListing'.dup) =>
        /\ stats'.duplicates_skipped = stats.duplicates_skipped + 1
        /\ places' = places
        /\ store' = store
        /\ stats'.successful_scrapes = stats.successful_scrapes
        /\ stats'.failed_scrapes = stats.failed_scrapes
        /\ stats'.emails_found = stats.emails_found]_vars

\* C11: at every point of a run the result sequence holds at most total Places
\* and at most max_listings (the scan ceiling of lines 451-455) listings have
\* been processed; a listing is opened only while the result sequence is below
\* the target and the processed count is below the ceiling.
C11_EarlyStopBounds ==
    /\ [](Len(places) <= cfg.total /\ listings_processed <= cfg.max_listings)
    /\ [][listings_processed' /= listings_processed =>
            /\ Len(places) < cfg.total
            /\ listings_processed < cfg.max_listings]_vars

\* a run stopped by the ceiling with listings left and the target not reached
C11_Witness ==
    /\ pc = "done"
    /\ listings_processed = cfg.max_listings
    /\ listings_processed < listings_total
    /\ Len(places) < cfg.total

\* the step is one iteration of the listing loop
ListingStep == pc = "iterate" /\ listings_processed' = listings_processed + 1

\* C13 as claimed: when the fetches of a listing's website raise, the resolve
\* is attempted again under the retry policy until 3 attempts are made, and the
\* listing is then counted in failed_scrapes while the run goes on.
C13_FetchErrorsRetriedThenFailed ==
    [][(ListingStep /\ lastListing'.fault = "none"
            /\ lastListing'.fetch_errors = Len(pages_to_try)) =>
        /\ lastListing'.calls = 3
        /\ stats'.failed_scrapes = stats.failed_scrapes + 1
        /\ pc' = "iterate"]_vars

\* C15: with extract_emails set, a listing whose website is empty or "None
\* Found" is resolved without a fetch to the empty email and does not count as
\* a visit; websites_visited grows by exactly 1 for an extracted listing that
\* names a website, whatever happens to the listing afterwards, and by 0 for
\* every other listing.
C15_WebsiteVisits ==
    [][ListingStep =>
        LET l == lastListing'
            none == l.website = <<>> \/ l.website = NoneFound
            grown == stats'.websites_visited - stats.websites_visited
        IN  /\ (cfg.extract_emails /\ l.extracted /\ none) =>
                    (l.fetches = 0 /\ l.email = <<>> /\ grown = 0)
            /\ grown = IF cfg.extract_emails /\ l.extracted /\ ~none THEN 1 ELSE 0]_vars

\* a "None Found" listing saved without a visit, after a listing that was a visit
C15_Witness ==
    /\ cfg.extract_emails
    /\ lastListing.op = "listing" /\ lastListing.website = NoneFound
    /\ lastListing.saved /\ lastListing.calls = 1 /\ lastListing.fetches = 0
    /\ listings_processed = 2 /\ stats.websites_visited = 1

\* C16: when extract_emails is false the resolver is not called and nothing is
\* fetched for any listing, every Place has the empty email, and
\* websites_visited stays 0.
C16_NoExtractionNoResolver ==
    ~cfg.extract_emails =>
        /\ stats.websites_visited = 0
        /\ \A i \in 1..Len(places) : places[i].email = <<>>
        /\ lastListing.op = "listing" =>
                /\ lastListing.calls = 0
                /\ lastListing.fetches = 0
                /\ lastListing.email = <<>>

\* a listing with a website saved without its website being looked at
C16_Witness ==
    /\ ~cfg.extract_emails
    /\ lastListing.op = "listing" /\ lastListing.website = Site
    /\ lastListing.saved /\ Len(places) = 2

\* C17 as claimed: a store that cannot be opened, and an is_duplicate or an
\* upsert_lead that raises, end the run with an exception for the caller; the
\* loop does not go on to the next listing.
C17_StorageErrorsFatal ==
    /\ [][(pc = "start" /\ cfg'.dedup_enabled /\ dedup_conn' /= "open") =>
            (pc' = "raised" /\ exc')]_vars
    /\ [][(ListingStep /\ lastListing'.fault \in {"store_read", "store_write"}) =>
            (pc' /= "iterate" /\ exc')]_vars

\* C18 as claimed: a listing whose opening or extraction raises adds exactly 1
\* to failed_scrapes, leaves the result sequence and the store as they were,
\* and the loop goes on.
C18_ListingFailureIsolated ==
    [][(ListingStep /\ lastListing'.fault = "open") =>
        /\ stats'.failed_scrapes = stats.failed_scrapes + 1
        /\ places' = places
        /\ store' = store
        /\ pc' = "iterate"
        /\ ~exc']_vars

\* C19 as claimed: with dedup enabled the store connection is opened once,
\* before any listing, stays open until the run leaves, and is closed once on
\* every way out; is_duplicate and upsert_lead are called only in between.
C19_StoreLifetime ==
    /\ [](cfg.dedup_enabled =>
            /\ pc \in {"launch", "search", "scroll", "listings", "iterate",
                        "finally_browser", "with_exit", "finally_store"} =>
                    conn_log = <<"open">>
            /\ pc \in {"finalize", "done"} => conn_log = <<"open", "close">>
            /\ pc = "raised" => conn_log \in { <<>>, <<"open", "close">> })
    /\ [][(ListingStep /\ (lastListing'.checked \/ lastListing'.upserted
                              \/ lastListing'.fault = "store_read"
                              \/ lastListing'.fault = "store_write")) =>
            (conn_log = <<"open">> /\ conn_log' = <<"open">>)]_vars

\* C20 as claimed: a run that returns has
\* successful_scrapes + failed_scrapes <= total_searched.
C20_OutcomesWithinSearched ==
    pc = "done" =>
        stats.successful_scrapes + stats.failed_scrapes <= stats.total_searched

\* C25 as claimed: a round that does not end the loop resets scroll_attempts to
\* 0 exactly when the new count is strictly greater than previously_counted and
\* adds 1 to it otherwise; previously_counted becomes the new count;
\* scroll_attempts stays within 0..max_scroll_attempts.
C25_DiscoveryTransition ==
    [][(pc = "scroll" /\ pc' = "scroll") =>
        /\ scroll_attempts' = IF found' > previously_counted THEN 0
                              ELSE scroll_attempts + 1
        /\ previously_counted' = found'
        /\ scroll_attempts' \in 0..cfg.max_scroll_attempts]_vars

\* the collected matches that pass the discard rules of a mode, by position
Passing(all_emails, mode) ==
    { i \in 1..Len(all_emails) : ~skipped(all_emails[i], mode) }

\* C23: in mode "none" the resolver returns the first collected match as it
\* is; in "balanced" and "strict" it returns the first collected match, in scan
\* order, that the mode's discard rules let pass, and the empty string when
\* there is none; an address returned under "strict" passes "balanced" as well.
C23_ResultSelection ==
    (pc = "resolved" /\ resolve_in.email_filter_mode \in {"none", "balanced", "strict"}) =>
        LET all_emails == resolved.all_emails
            mode == resolve_in.email_filter_mode
            passing == Passing(all_emails, mode)
        IN  /\ mode = "none" =>
                    resolved.email = IF all_emails = <<>> THEN <<>> ELSE all_emails[1]
            /\ mode /= "none" =>
                    resolved.email =
                        IF passing = {} THEN <<>>
                        ELSE all_emails[CHOOSE i \in passing : \A j \in passing : i <= j]
            /\ (mode = "strict" /\ resolved.email /= <<>>) =>
                    ~skipped(resolved.email, "balanced")

\* under "strict" the role account found first is passed over for the address
\* after it
C23_Witness ==
    /\ pc = "resolved" /\ resolve_in.email_filter_mode = "strict"
    /\ resolved.all_emails = <<RoleEmail, Email2, Email2>>
    /\ resolved.email = Email2

\* C24 as claimed: with max_listings=None a run that returns has reached the
\* target or has processed every listing discovered; no ceiling stops it.
C24_UnboundedScan ==
    (pc = "done" /\ cfg.max_listings_arg = <<>>) =>
        (Len(places) >= cfg.total \/ listings_processed = listings_total)

\* C22 as claimed: an extracted listing that is not save-eligible adds exactly
\* 1 to failed_scrapes and is neither appended, nor looked up in the store, nor
\* upserted.
C22_RejectedListing ==
    [][(ListingStep /\ lastListing'.extracted /\ ~lastListing'.eligible) =>
        /\ stats'.failed_scrapes = stats.failed_scrapes + 1
        /\ stats'.successful_scrapes = stats.successful_scrapes
        /\ places' = places
        /\ ~lastListing'.checked /\ ~lastListing'.upserted
        /\ store' = store]_vars

\* the fingerprints of the result sequence
ResultFingerprints == { build_fingerprint(places[i]) : i \in 1..Len(places) }

\* C30: the store changes only in the iteration that appends a Place, by the
\* upsert of that Place; a listing that is rejected, skipped as duplicate or
\* fails leaves it as it was; every row written during the run (the rows left
\* by earlier runs are of time 0) has the fingerprint of a Place of the result;
\* with dedup disabled no connection is opened and the store is neither read
\* nor written.
C30_StoreFrame ==
    /\ [][store' /= store =>
            /\ ListingStep /\ lastListing'.saved /\ lastListing'.upserted
            /\ Len(places') = Len(places) + 1
            /\ \A r \in store' \ store :
                    r.fingerprint = build_fingerprint(places'[Len(places')])
            /\ \A r \in store \ store' :
                    r.fingerprint = build_fingerprint(places'[Len(places')])]_vars
    /\ [][(ListingStep /\ (~lastListing'.saved \/ lastListing'.fault /= "none")) =>
            store' = store]_vars
    /\ [](\A r \in store : r.updated_at > 0 => r.fingerprint \in ResultFingerprints)
    /\ [](~cfg.dedup_enabled => (conn_log = <<>> /\ dedup_conn = "none"))
    /\ [][~cfg'.dedup_enabled =>
            (store' = store /\ (ListingStep => ~lastListing'.checked))]_vars

\* a lead upserted next to the row an earlier run left under another
\* fingerprint, after a rejected listing and a duplicate
C30_Witness ==
    /\ lastListing.op = "listing" /\ lastListing.upserted
    /\ Cardinality(store) = 2
    /\ \E r \in store : r.updated_at = 0
    /\ stats.failed_scrapes >= 1 /\ stats.duplicates_skipped >= 1

\* C29 as claimed: with dedup enabled, two Places of the result sequence with
\* one fingerprint are a Place with an empty email followed by a Place with a
\* non-empty one: at most one of each per fingerprint, the empty one first.
C29_OnePlacePerFingerprintAndEmail ==
    cfg.dedup_enabled =>
        \A i \in 1..Len(places) : \A j \in (i + 1)..Len(places) :
            build_fingerprint(places[i]) = build_fingerprint(places[j]) =>
                (places[i].email = <<>> /\ places[j].email /= <<>>)

C27_SavedLeadCounters ==
    /\ [](/\ stats.successful_scrapes = Len(places)
          /\ stats.emails_found =
                Cardinality({ i \in 1..Len(places) : places[i].email /= <<>> })
          /\ stats.social_media_found =
                Cardinality({ i \in 1..Len(places) :
                    \E k \in {"facebook", "instagram", "twitter", "linkedin"} :
                        places[i][k] /= <<>> })
          /\ stats.emails_found <= stats.successful_scrapes
          /\ stats.social_media_found <= stats.successful_scrapes)
    /\ [][\A k \in DOMAIN stats : stats'[k] >= stats[k]]_vars

\* two leads, one with a linkedin page only and no email, one with an email
\* and no link, saved around a listing that failed
C27_Witness ==
    /\ Len(places) = 2
    /\ stats.social_media_found = 1 /\ stats.emails_found = 1
    /\ stats.failed_scrapes >= 1
    /\ \E i \in 1..2 : places[i].linkedin /= <<>> /\ places[i].email = <<>>

\* C28: when neither the callback nor the store raises, after every iteration
\* listings_processed = successful_scrapes + failed_scrapes +
\* duplicates_skipped, each listing being counted once, and a run that returns
\* has total_searched equal to that sum.
C28_OneOutcomePerListing ==
    /\ [](listings_processed =
            stats.successful_scrapes + stats.failed_scrapes + stats.duplicates_skipped)
    /\ [](pc = "done" =>
            stats.total_searched =
                stats.successful_scrapes + stats.failed_scrapes + stats.duplicates_skipped)
    /\ [][ListingStep =>
            (stats'.successful_scrapes + stats'.failed_scrapes + stats'.duplicates_skipped)
              = (stats.successful_scrapes + stats.failed_scrapes + stats.duplicates_skipped) + 1]_vars

\* a run that returned with a saved, a failed and a duplicate listing
C28_Witness ==
    /\ pc = "done" /\ stats.total_searched = 3
    /\ stats.successful_scrapes = 1 /\ stats.failed_scrapes = 1
    /\ stats.duplicates_skipped = 1

\* the listings of the page that the first call saved with an email
SavedWithEmail == { i \in 1..Len(first) : first[i].saved /\ first[i].email /= <<>> }

\* C21: when a second call has returned, every listing the first call saved
\* with a non-empty email was counted in duplicates_skipped by the second and
\* was neither appended nor counted in successful_scrapes.
C21_SecondRunSkipsSavedLeads ==
    (run = 2 /\ pc = "done") =>
        /\ \A i \in SavedWithEmail :
              i <= Len(journal) /\ journal[i].dup /\ ~journal[i].saved
        /\ stats.duplicates_skipped >= Cardinality(SavedWithEmail)

====
